---- MODULE Spec2Model ----
(***************************************************************************)
(* OpenSSLCrypto::HMACContext (openvpn/openssl/crypto/hmac.hpp): the       *)
(* wrapper around the OpenSSL HMAC API, modelled as a state machine over   *)
(* one context object and the HMAC_CTX it owns.                            *)
(*                                                                         *)
(* The wrapper's methods (init, reset, update, final, size, erase,         *)
(* check_initialized, is_initialized, the destructor) are translated from  *)
(* the header.  The OpenSSL primitives they call (HMAC_CTX_init,           *)
(* HMAC_Init_ex, HMAC_Update, HMAC_Final, HMAC_size, HMAC_CTX_cleanup) and *)
(* the digest resolver live outside the header and are modelled from the   *)
(* design document: an accumulator keyed by (digest, key) that absorbs     *)
(* bytes, is consumed by finalisation and is restarted by a key-less       *)
(* re-init.  Every primitive may fail; a primitive applied to an HMAC_CTX  *)
(* that is not set up is undefined and may also crash the process.         *)
(*                                                                         *)
(* The two preprocessor switches of the header are build parameters:       *)
(*   strict  - OPENVPN_ENABLE_ASSERT is defined                            *)
(*   legacy  - SSLEAY_VERSION_NUMBER < 0x10000000L (primitives return void)*)
(***************************************************************************)
EXTENDS Integers, Sequences, FiniteSets, TLC

\* ---------------------------------------------------------------- bounds
\* Data bytes are 1..MaxByte; a key has at most MaxKeyLen bytes (keys differ in
\* length); the bytes fed to one accumulation, and so one chunk, number at most
\* MaxData.
MaxByte == 1
MaxKeyLen == 1
MaxData == 2
\* size_t lengths examined by the length conversion: hi * 2^31 + lo with
\* hi in 0..MaxHi and lo within MaxLo of either end of the int range.
MaxHi == 3
MaxLo == 3

\* ------------------------------------------------------------- constants
\* The largest int; a size_t is held as hi * 2^31 + lo with 0 <= lo <= IntMax.
IntMax == 2147483647

Bytes == 1..MaxByte
BSeq(n) == UNION {[1..k -> Bytes] : k \in 0..n}
Keys == {[i \in 1..k |-> 1] : k \in 0..MaxKeyLen}
ChunkSet == BSeq(MaxData)

\* CryptoAlgs::Type values the resolver knows, and one it does not.
Algs == {"SHA1", "SHA256"}
NoAlg == "NONE"
AllAlgs == Algs \cup {NoAlg}

\* The size_t length of a buffer that fits the model.
SizeT(n) == [hi |-> 0, lo |-> n]

\* The size_t lengths a caller may pass, sampled around the edges of int.
WideSizes ==
  {[hi |-> a, lo |-> b] : a \in 0..MaxHi,
                          b \in (0..MaxLo) \cup {IntMax - d : d \in 0..MaxLo}}

\* int(x) for a size_t x: the narrowing conversion of init and update keeps
\* the low 32 bits, read as two's complement.
IntCast(x) == IF x.hi % 2 = 0 THEN x.lo ELSE (x.lo - IntMax) - 1

\* The first n bytes of a buffer (n as the primitive receives it).
Prefix(s, n) == IF n <= 0 THEN <<>> ELSE SubSeq(s, 1, IF n < Len(s) THEN n ELSE Len(s))

\* ------------------------------------------------------------ the engine
\* Tag length of a digest (EVP_MD_size).
DigestSize(md) == CASE md = "SHA1" -> 20 [] md = "SHA256" -> 32 [] OTHER -> 0

\* The MAC as an ideal keyed function: distinct (md, key, msg) give distinct tags.
HMAC(md, key, msg) == [valid |-> TRUE, md |-> md, key |-> key, msg |-> msg]
\* What an out buffer holds when the engine computed no proper tag.
Undefined == [valid |-> FALSE, md |-> NoAlg, key |-> <<>>, msg |-> <<>>]
TagChoices(t) == {t, Undefined}
\* Values an indeterminate length may take.
UndefLens == {0, 64}

\* HMAC_CTX as left by the constructor: storage nobody has set up.
RawCtx == [st |-> "raw", md |-> NoAlg, hasKey |-> FALSE, key |-> <<>>,
           acc |-> "none", data |-> <<>>]

\* DigestContext::digest_type: does the resolver know the identifier.
digest_type_ok(digest) == digest \in Algs

HMAC_CTX_init(x) ==
  [st |-> "inited", md |-> NoAlg, hasKey |-> FALSE, key |-> <<>>,
   acc |-> "none", data |-> <<>>]

HMAC_CTX_cleanup(x) ==
  [st |-> "cleaned", md |-> NoAlg, hasKey |-> FALSE, key |-> <<>>,
   acc |-> "none", data |-> <<>>]

\* HMAC_Init_ex with a key and a digest.  r is the primitive's outcome; a
\* failing call may already have copied the key (partial).
HMAC_Init_ex(x, key, len, md, r, partial) ==
  IF r = "ok"
  THEN [st |-> "keyed", md |-> md, hasKey |-> TRUE, key |-> Prefix(key, len),
        acc |-> "ok", data |-> <<>>]
  ELSE [st |-> "broken", md |-> md, hasKey |-> partial,
        key |-> IF partial THEN Prefix(key, len) ELSE <<>>,
        acc |-> "broken", data |-> <<>>]

\* HMAC_Init_ex(ctx, nullptr, 0, nullptr, nullptr): restart with the bound key.
HMAC_Init_ex_null(x, r) ==
  IF x.st # "keyed" THEN x
  ELSE IF r = "ok" THEN [x EXCEPT !.acc = "ok", !.data = <<>>]
  ELSE [x EXCEPT !.acc = "broken", !.data = <<>>]

\* HMAC_Update.  After a finalisation the accumulator is consumed: what further
\* bytes do to it is not defined, and HMAC_Final_tags leaves the result open.
HMAC_Update(x, in, len, r) ==
  IF x.st # "keyed" THEN x
  ELSE IF r = "ok" THEN [x EXCEPT !.data = @ \o Prefix(in, len)]
  ELSE [x EXCEPT !.acc = "broken"]

\* The accumulator after HMAC_Final.
HMAC_Final(x, r) ==
  IF x.st # "keyed" THEN x
  ELSE IF r = "ok" /\ x.acc = "ok" THEN [x EXCEPT !.acc = "consumed"]
  ELSE IF r = "ok" THEN x
  ELSE [x EXCEPT !.acc = "broken"]

\* The tags HMAC_Final may write for an accumulator: the MAC of the absorbed
\* bytes; for a consumed accumulator that or anything else.
HMAC_Final_tags(x, r) ==
  IF r = "ok" /\ x.st = "keyed" /\ x.acc = "ok" THEN {HMAC(x.md, x.key, x.data)}
  ELSE IF r = "ok" /\ x.st = "keyed" /\ x.acc = "consumed"
       THEN TagChoices(HMAC(x.md, x.key, x.data))
  ELSE {Undefined}

\* The lengths HMAC_Final may store in *outlen.
HMAC_Final_lens(x, r) ==
  IF r = "ok" /\ x.st = "keyed" /\ x.acc # "broken" THEN {DigestSize(x.md)}
  ELSE UndefLens

HMAC_size(x) == IF x.st = "keyed" THEN {DigestSize(x.md)} ELSE UndefLens

\* What a primitive call on x can do: on a context that is set up it returns
\* success or failure; on anything else the call is undefined.
Outcomes(x) == IF x.st = "keyed" THEN {"ok", "fail"} ELSE {"ok", "fail", "crash"}
SizeOutcomes(x) == IF x.st = "keyed" THEN {"ok"} ELSE {"ok", "crash"}

\* ------------------------------------------------------------- the state
VARIABLES
  strict,       \* build: OPENVPN_ENABLE_ASSERT defined
  legacy,       \* build: SSLEAY_VERSION_NUMBER < 0x10000000L
  life,         \* "alive", "destroyed" (after ~HMACContext), "crashed", "unbuilt"
                \* (the keyed constructor threw)
  initialized,  \* HMACContext::initialized
  ctx,          \* HMACContext::ctx, the HMAC_CTX
  res,          \* what the last call did: its error, return value, out buffer,
                \* the primitives it called and the primitive's own outcome
  h,            \* history: the last init the engine accepted and what was fed since
  leak,         \* set when engine state is re-set-up or released without cleanup
  lastInit,     \* how the most recent init call ended: "none", "ok", "failed"
  cast          \* the last length conversion examined: the size_t the caller
                \* passed and the int the primitive received

vars == <<strict, legacy, life, initialized, ctx, res, h, leak, lastInit, cast>>

\* A return value is a set: empty when the call returns nothing or throws.
NoRet == {}
NoCall == [op |-> "none", err |-> "none", ret |-> NoRet, out |-> Undefined,
           calls |-> <<>>, prim |-> "none"]
Result(op, err, ret, out, calls, prim) ==
  [op |-> op, err |-> err, ret |-> ret, out |-> out, calls |-> calls, prim |-> prim]

\* phase: "none" (no init the engine accepted is in force), "acc" (only accepted
\* updates since the last accepted init or reset), "done" (those and then one
\* accepted final), "reused" (accepted calls after that final), "fault" (a
\* failed primitive since then).  era: how the accumulation began:
\* "init", "rekey" (an init over a context keyed with another key), "reset".
\* fed: the bytes passed to the update calls that returned since then, in
\* order; split: two or more of those calls passed at least one byte.
NoCast == [op |-> "none", size |-> SizeT(0), len |-> 0]

NoHistory == [phase |-> "none", alg |-> NoAlg, key |-> <<>>, fed |-> <<>>, split |-> FALSE,
              era |-> "none"]

\* Engine state that holds a key schedule or partial hash until cleaned up.
Touched(x) == x.st \in {"keyed", "broken"}

\* -------------------------------------------------- HMACContext's methods
\* check_initialized() with the test compiled out in every build.
check_initialized_off(ini) == FALSE

\* check_initialized() with the test compiled into every build.
check_initialized_always(ini) == ~ini

\* check_initialized(): TRUE when it throws openssl_hmac_uninitialized.
check_initialized(ini) == strict /\ ~ini

\* erase() that drops the flag and forgets the cleanup.
erase_noclean(ini, x) == [initialized |-> FALSE, ctx |-> x, calls |-> <<>>]

\* erase() that cleans up whatever the flag says.
erase_always(ini, x) ==
  [initialized |-> FALSE, ctx |-> HMAC_CTX_cleanup(x), calls |-> <<"HMAC_CTX_cleanup">>]

\* erase(): cleanup only when initialized.
erase(ini, x) ==
  IF ini
  THEN [initialized |-> FALSE, ctx |-> HMAC_CTX_cleanup(x), calls |-> <<"HMAC_CTX_cleanup">>]
  ELSE [initialized |-> ini, ctx |-> x, calls |-> <<>>]

\* Whether a primitive's failure reaches the caller as openssl_hmac_error:
\* the branch that tests the return value is compiled in only when ~legacy.
Reported(r) == r = "fail" /\ ~legacy

\* init() that re-keys an initialized context with the key it already holds.
init_stale(ini, x, digest, key, key_size, r, partial) ==
  LET k == IF ini THEN x.key ELSE key
      c2 == HMAC_Init_ex(HMAC_CTX_init(HMAC_CTX_cleanup(x)), k, IntCast(SizeT(Len(k))),
                         digest, r, partial)
      calls == (IF ini THEN <<"HMAC_CTX_cleanup">> ELSE <<>>) \o <<"HMAC_CTX_init", "HMAC_Init_ex">>
  IN  [initialized |-> ~Reported(r) /\ digest_type_ok(digest), ctx |-> c2,
       err |-> IF ~digest_type_ok(digest) THEN "digest_type_error"
               ELSE IF Reported(r) THEN "openssl_hmac_error" ELSE "none",
       calls |-> calls, prim |-> r, reused |-> FALSE]

\* init() that forgets to set the flag.
init_noflag(ini, x, digest, key, key_size, r, partial) ==
  [initialized |-> FALSE,
   ctx |-> HMAC_Init_ex(HMAC_CTX_init(x), key, IntCast(key_size), digest, r, partial),
   err |-> IF ~digest_type_ok(digest) THEN "digest_type_error"
           ELSE IF Reported(r) THEN "openssl_hmac_error" ELSE "none",
   calls |-> (IF ini THEN <<"HMAC_CTX_cleanup">> ELSE <<>>) \o <<"HMAC_CTX_init", "HMAC_Init_ex">>,
   prim |-> r, reused |-> FALSE]

\* init(digest, key, key_size) with the primitive's outcome r.
init(ini, x, digest, key, key_size, r, partial) ==
  LET e == erase(ini, x)
      c1 == HMAC_CTX_init(e.ctx)
      pre == e.calls \o <<"HMAC_CTX_init">>
  IN  IF ~digest_type_ok(digest)
      THEN [initialized |-> e.initialized, ctx |-> c1, err |-> "digest_type_error",
            calls |-> pre, prim |-> "none", reused |-> Touched(e.ctx)]
      ELSE LET c2 == HMAC_Init_ex(c1, key, IntCast(key_size), digest, r, partial)
               calls == pre \o <<"HMAC_Init_ex">>
           IN  IF Reported(r)
               THEN [initialized |-> e.initialized, ctx |-> c2, err |-> "openssl_hmac_error",
                     calls |-> calls, prim |-> r, reused |-> Touched(e.ctx)]
               ELSE [initialized |-> TRUE, ctx |-> c2, err |-> "none",
                     calls |-> calls, prim |-> r, reused |-> Touched(e.ctx)]

\* reset() that returns without restarting the accumulator.
reset_noop(x, r) ==
  [ctx |-> x, err |-> IF Reported(r) THEN "openssl_hmac_error" ELSE "none",
   calls |-> <<"HMAC_Init_ex">>, prim |-> r]

\* reset() that passes an empty key instead of no key.
reset_rekey(x, r) ==
  [ctx |-> IF x.st = "keyed" THEN HMAC_Init_ex(x, <<>>, 0, x.md, r, FALSE) ELSE x,
   err |-> IF Reported(r) THEN "openssl_hmac_error" ELSE "none",
   calls |-> <<"HMAC_Init_ex">>, prim |-> r]

\* reset() past check_initialized.
reset(x, r) ==
  [ctx |-> HMAC_Init_ex_null(x, r),
   err |-> IF Reported(r) THEN "openssl_hmac_error" ELSE "none",
   calls |-> <<"HMAC_Init_ex">>, prim |-> r]

\* update() that passes one byte too few.
update_short(x, in, size, r) ==
  [ctx |-> HMAC_Update(x, in, IntCast(size) - 1, r),
   err |-> IF Reported(r) THEN "openssl_hmac_error" ELSE "none",
   calls |-> <<"HMAC_Update">>, prim |-> r]

\* update() that cleans the engine state up when HMAC_Update fails.
update_cleanfail(x, in, size, r) ==
  [ctx |-> IF r = "fail" THEN HMAC_CTX_cleanup(x) ELSE HMAC_Update(x, in, IntCast(size), r),
   err |-> IF Reported(r) THEN "openssl_hmac_error" ELSE "none",
   calls |-> IF r = "fail" THEN <<"HMAC_Update", "HMAC_CTX_cleanup">> ELSE <<"HMAC_Update">>,
   prim |-> r]

\* update(in, size) past check_initialized.
update(x, in, size, r) ==
  [ctx |-> HMAC_Update(x, in, IntCast(size), r),
   err |-> IF Reported(r) THEN "openssl_hmac_error" ELSE "none",
   calls |-> <<"HMAC_Update">>, prim |-> r]

\* final() that returns the buffer capacity MAX_HMAC_SIZE instead of outlen.
final_maxlen(x, r) ==
  [ctx |-> HMAC_Final(x, r),
   err |-> IF Reported(r) THEN "openssl_hmac_error" ELSE "none",
   outs |-> IF Reported(r) THEN {Undefined} ELSE HMAC_Final_tags(x, r),
   rets |-> IF Reported(r) THEN {NoRet} ELSE {{64}},
   calls |-> <<"HMAC_Final">>, prim |-> r]

\* final(out) past check_initialized: the out buffers and return values it may give.
final(x, r) ==
  [ctx |-> HMAC_Final(x, r),
   err |-> IF Reported(r) THEN "openssl_hmac_error" ELSE "none",
   outs |-> IF Reported(r) THEN {Undefined} ELSE HMAC_Final_tags(x, r),
   rets |-> IF Reported(r) THEN {NoRet} ELSE {{n} : n \in HMAC_Final_lens(x, r)},
   calls |-> <<"HMAC_Final">>, prim |-> r]

\* size_() that returns the buffer capacity MAX_HMAC_SIZE.
size_max(x) == {64}

\* size() past check_initialized: size_() is HMAC_size(&ctx).
size_(x) == HMAC_size(x)

\* is_initialized() that reports the opposite of the flag.
is_initialized_neg(ini) == ~ini

is_initialized(ini) == ini

\* The tag a fresh context gives for init(A, K); update(m); final when the
\* engine accepts every call.
FreshTag(A, K, m) ==
  LET i == init(FALSE, RawCtx, A, K, SizeT(Len(K)), "ok", FALSE)
      u == update(i.ctx, m, SizeT(Len(m)), "ok")
      f == final(u.ctx, "ok")
  IN  CHOOSE t \in f.outs : TRUE

\* ---------------------------------------------------------------- history
HistInit(accepted, digest, key) ==
  IF accepted
  THEN [phase |-> "acc", alg |-> digest, key |-> key, fed |-> <<>>, split |-> FALSE,
        era |-> IF h.phase # "none" /\ h.key # key THEN "rekey" ELSE "init"]
  ELSE NoHistory

HistReset(r) ==
  IF h.phase = "none" THEN h
  ELSE IF r = "ok" THEN [h EXCEPT !.phase = "acc", !.fed = <<>>, !.split = FALSE, !.era = "reset"]
  ELSE [h EXCEPT !.phase = "fault"]

HistUpdate(r, returned, in) ==
  IF h.phase = "none" THEN h
  ELSE [h EXCEPT !.phase = IF r # "ok" THEN "fault"
                           ELSE IF @ = "done" THEN "reused" ELSE @,
                 !.fed = IF returned THEN @ \o in ELSE @,
                 !.split = @ \/ (returned /\ in # <<>> /\ h.fed # <<>>)]

HistFinal(r) ==
  IF h.phase = "none" THEN h
  ELSE [h EXCEPT !.phase = IF r # "ok" THEN "fault"
                           ELSE IF @ = "acc" THEN "done"
                           ELSE IF @ = "done" THEN "reused" ELSE @]

\* ---------------------------------------------------------------- actions
Init ==
  /\ strict \in BOOLEAN
  /\ legacy \in BOOLEAN
  /\ life = "alive"
  /\ initialized = FALSE
  /\ ctx = RawCtx
  /\ res = NoCall
  /\ h = NoHistory
  /\ leak = "none"
  /\ lastInit = "none"
  /\ cast = NoCast

\* A call that check_initialized() stops.
Throws(op) ==
  /\ res' = Result(op, "openssl_hmac_uninitialized", NoRet, Undefined, <<>>, "none")
  /\ UNCHANGED <<cast, strict, legacy, life, initialized, ctx, h, leak, lastInit>>

\* A primitive call that brings the process down.
Crashes(op, calls) ==
  /\ life' = "crashed"
  /\ res' = Result(op, "crash", NoRet, Undefined, calls, "crash")
  /\ h' = NoHistory
  /\ UNCHANGED <<cast, strict, legacy, initialized, ctx, leak, lastInit>>

DoInit ==
  /\ life = "alive"
  /\ \E digest \in AllAlgs, key \in Keys, r \in {"ok", "fail"}, partial \in BOOLEAN :
       /\ partial => r = "fail" /\ digest_type_ok(digest)
       /\ r = "fail" => digest_type_ok(digest)
       /\ LET i == init(initialized, ctx, digest, key, SizeT(Len(key)), r, partial)
          IN  /\ initialized' = i.initialized
              /\ ctx' = i.ctx
              /\ res' = Result("init", i.err, NoRet, Undefined, i.calls, i.prim)
              /\ h' = HistInit(i.prim = "ok", digest, key)
              /\ leak' = IF i.reused THEN "reinit" ELSE leak
              /\ lastInit' = IF i.err = "none" THEN "ok" ELSE "failed"
  /\ UNCHANGED <<cast, strict, legacy, life>>

\* HMACContext(digest, key, key_size): initialized(false), then init().  When
\* init() throws the object never comes to life: no destructor runs and the
\* storage, ctx included, is released as it is.
Construct ==
  /\ life = "alive"
  /\ res = NoCall
  /\ \E digest \in AllAlgs, key \in Keys, r \in {"ok", "fail"}, partial \in BOOLEAN :
       /\ partial => r = "fail" /\ digest_type_ok(digest)
       /\ r = "fail" => digest_type_ok(digest)
       /\ LET i == init(FALSE, RawCtx, digest, key, SizeT(Len(key)), r, partial)
          IN  /\ initialized' = i.initialized
              /\ ctx' = i.ctx
              /\ res' = Result("init", i.err, NoRet, Undefined, i.calls, i.prim)
              /\ lastInit' = IF i.err = "none" THEN "ok" ELSE "failed"
              /\ life' = IF i.err = "none" THEN "alive" ELSE "unbuilt"
              /\ h' = IF i.err = "none" THEN HistInit(i.prim = "ok", digest, key) ELSE NoHistory
              /\ leak' = IF i.err # "none" /\ Touched(i.ctx) THEN "construct" ELSE leak
  /\ UNCHANGED <<cast, strict, legacy>>

DoReset ==
  /\ life = "alive"
  /\ IF check_initialized(initialized) THEN Throws("reset")
     ELSE \E r \in Outcomes(ctx) :
            IF r = "crash" THEN Crashes("reset", <<"HMAC_Init_ex">>)
            ELSE LET o == reset(ctx, r)
                 IN  /\ ctx' = o.ctx
                     /\ res' = Result("reset", o.err, NoRet, Undefined, o.calls, o.prim)
                     /\ h' = HistReset(r)
                     /\ UNCHANGED <<cast, strict, legacy, life, initialized, leak, lastInit>>

DoUpdate ==
  /\ life = "alive"
  /\ \E in \in ChunkSet :
       /\ Len(h.fed) + Len(in) <= MaxData
       /\ IF check_initialized(initialized) THEN Throws("update")
          ELSE \E r \in Outcomes(ctx) :
                 IF r = "crash" THEN Crashes("update", <<"HMAC_Update">>)
                 ELSE LET o == update(ctx, in, SizeT(Len(in)), r)
                      IN  /\ ctx' = o.ctx
                          /\ res' = Result("update", o.err, NoRet, Undefined, o.calls, o.prim)
                          /\ h' = HistUpdate(r, o.err = "none", in)
                          /\ UNCHANGED <<cast, strict, legacy, life, initialized, leak, lastInit>>

DoFinal ==
  /\ life = "alive"
  /\ IF check_initialized(initialized) THEN Throws("final")
     ELSE \E r \in Outcomes(ctx) :
            IF r = "crash" THEN Crashes("final", <<"HMAC_Final">>)
            ELSE LET o == final(ctx, r)
                 IN  \E out \in o.outs, ret \in o.rets :
                       /\ ctx' = o.ctx
                       /\ res' = Result("final", o.err, ret, out, o.calls, o.prim)
                       /\ h' = HistFinal(r)
                       /\ UNCHANGED <<cast, strict, legacy, life, initialized, leak, lastInit>>

DoSize ==
  /\ life = "alive"
  /\ IF check_initialized(initialized) THEN Throws("size")
     ELSE \E r \in SizeOutcomes(ctx) :
            IF r = "crash" THEN Crashes("size", <<"HMAC_size">>)
            ELSE \E ret \in size_(ctx) :
                   /\ res' = Result("size", "none", {ret}, Undefined, <<"HMAC_size">>, r)
                   /\ UNCHANGED <<cast, strict, legacy, life, initialized, ctx, h, leak, lastInit>>

DoIsInitialized ==
  /\ life = "alive"
  /\ res' = Result("is_initialized", "none", {IF is_initialized(initialized) THEN 1 ELSE 0},
                   Undefined, <<>>, "none")
  /\ UNCHANGED <<cast, strict, legacy, life, initialized, ctx, h, leak, lastInit>>

\* ~HMACContext(): erase(), then the storage is released.
Destroy ==
  /\ life = "alive"
  /\ LET e == erase(initialized, ctx)
     IN  /\ initialized' = e.initialized
         /\ ctx' = e.ctx
         /\ res' = Result("destroy", "none", NoRet, Undefined, e.calls, "none")
         /\ leak' = IF Touched(e.ctx) THEN "destroy" ELSE leak
  /\ life' = "destroyed"
  /\ h' = NoHistory
  /\ UNCHANGED <<cast, strict, legacy, lastInit>>

Next ==
  \/ Construct
  \/ DoInit
  \/ DoReset
  \/ DoUpdate
  \/ DoFinal
  \/ DoSize
  \/ DoIsInitialized
  \/ Destroy

Spec == Init /\ [][Next]_vars

\* ------------------------------------------------- the length conversions
\* init's HMAC_Init_ex(&ctx, key, int(key_size), ...) for any size_t key_size:
\* the same expression in both build branches.
InitLength ==
  /\ life = "alive"
  /\ \E key_size \in WideSizes :
       cast' = [op |-> "init", size |-> key_size, len |-> IntCast(key_size)]
  /\ UNCHANGED <<strict, legacy, life, initialized, ctx, res, h, leak, lastInit>>

\* update's HMAC_Update(&ctx, in, int(size)) for any size_t size.
UpdateLength ==
  /\ life = "alive"
  /\ \E size \in WideSizes :
       cast' = [op |-> "update", size |-> size, len |-> IntCast(size)]
  /\ UNCHANGED <<strict, legacy, life, initialized, ctx, res, h, leak, lastInit>>

CastNext ==
  \/ InitLength
  \/ UpdateLength

CastSpec == Init /\ [][CastNext]_vars

\* ------------------------------------------------------------------ claims
GuardedOps == {"update", "final", "reset", "size"}

\* C1: in a strict build, update, final, reset and size called while the flag
\* is false throw openssl_hmac_uninitialized before any primitive is called and
\* leave the flag and the engine state as they were.
C1_UseBeforeInit ==
  [][(strict /\ ~initialized /\ life = "alive" /\ res'.op \in GuardedOps)
       => /\ res'.err = "openssl_hmac_uninitialized"
          /\ res'.calls = <<>>
          /\ initialized' = initialized
          /\ ctx' = ctx
          /\ life' = life]_vars

\* A guarded call rejected on a context whose last init failed inside HMAC_Init_ex.
C1_Witness ==
  /\ strict
  /\ res.op \in GuardedOps
  /\ res.err = "openssl_hmac_uninitialized"
  /\ lastInit = "failed"
  /\ ctx.st = "broken"

\* C2: after an init that failed (it threw, or the engine rejected the binding)
\* the context is uninitialized.
C2_FailedInitUninitialized ==
  (life = "alive" /\ res.op = "init" /\ (res.err # "none" \/ res.prim = "fail"))
    => ~initialized

\* C3: engine state that was set up and written to is cleaned up before it is
\* set up again or released.
C3_CleanedOnEveryPath == leak = "none"

\* C4: destruction and re-init of an Initialized context call HMAC_CTX_cleanup
\* first, before HMAC_CTX_init and HMAC_Init_ex bind the new key and before the
\* storage is released.
C4_ClearedFirst ==
  [][(life = "alive" /\ initialized /\ res'.op \in {"init", "destroy"})
       => /\ res'.calls # <<>>
          /\ Head(res'.calls) = "HMAC_CTX_cleanup"
          /\ \A i \in 2..Len(res'.calls) : res'.calls[i] # "HMAC_CTX_cleanup"
          /\ leak' = leak
          /\ res'.op = "destroy" => ctx'.st = "cleaned"]_vars

\* A re-init with another key that cleaned up first.
C4_Witness ==
  /\ res.op = "init"
  /\ res.calls = <<"HMAC_CTX_cleanup", "HMAC_CTX_init", "HMAC_Init_ex">>
  /\ h.era = "rekey"

\* A final the engine accepted, first since the accepted init or reset that
\* began the accumulation, with every call in between accepted.
CleanFinal == life = "alive" /\ res.op = "final" /\ res.err = "none" /\ h.phase = "done"

\* C5: the tag of init(A,K); update(m1); ...; update(mn); final is the tag of
\* init(A,K); update(m1 + ... + mn); final on a fresh context.
C5_ChunkInvariance ==
  (CleanFinal /\ h.era \in {"init", "rekey"}) => res.out = FreshTag(h.alg, h.key, h.fed)

\* A tag over bytes that were fed in two or more non-empty chunks.
C5_Witness ==
  /\ CleanFinal
  /\ h.era = "init"
  /\ h.split
  /\ res.out = HMAC(h.alg, h.key, h.fed)

\* C6: after a successful reset, update(m); final gives the tag of a fresh
\* context for init(A,K); update(m); final, A and K being those of the last init.
C6_ResetAsFresh ==
  (CleanFinal /\ h.era = "reset") => res.out = FreshTag(h.alg, h.key, h.fed)

C6_Witness ==
  /\ CleanFinal
  /\ h.era = "reset"
  /\ h.fed # <<>>
  /\ res.out = HMAC(h.alg, h.key, h.fed)

\* C7: after a successful init(A2,K2) over a context keyed with K1 # K2,
\* update(m); final gives the tag of a fresh context for init(A2,K2); update(m);
\* final.
C7_ReinitNoResidue ==
  (CleanFinal /\ h.era = "rekey")
    => /\ res.out = FreshTag(h.alg, h.key, h.fed)
       /\ res.out.key = h.key

C7_Witness ==
  /\ CleanFinal
  /\ h.era = "rekey"
  /\ h.fed # <<>>
  /\ res.out = HMAC(h.alg, h.key, h.fed)

\* C8 as stated: every successful final returns the tag of the bytes passed to
\* update since the most recent successful init or reset, and the tag length,
\* also when a final came before it with no reset or init in between.
C8_EveryFinal ==
  (life = "alive" /\ res.op = "final" /\ res.err = "none" /\ h.phase \in {"done", "reused"})
    => /\ res.out = HMAC(h.alg, h.key, h.fed)
       /\ res.ret = {DigestSize(h.alg)}

\* C8 amended: the first successful final since the most recent successful init
\* or reset, every call in between having succeeded, returns the tag of the
\* bytes passed to update since then, and the tag length.
C8_FirstFinal ==
  CleanFinal
    => /\ res.out = HMAC(h.alg, h.key, h.fed)
       /\ res.ret = {DigestSize(h.alg)}

C8_Witness ==
  /\ CleanFinal
  /\ h.fed # <<>>
  /\ res.out = HMAC(h.alg, h.key, h.fed)
  /\ res.ret = {DigestSize(h.alg)}

\* C9: a successful init lands in Initialized from either state; a successful
\* update, reset or final leaves the context Initialized; while the context is
\* alive the flag is true exactly when the most recent init call succeeded,
\* and it is false once the context is destroyed.
C9_StateMachine ==
  /\ [](life = "alive" => (initialized <=> lastInit = "ok"))
  /\ [](life = "destroyed" => ~initialized)
  /\ []((res.op = "init" /\ res.err = "none") => initialized)
  /\ [][(life = "alive" /\ initialized /\ res'.op \in {"update", "reset", "final"}
           /\ res'.err = "none") => initialized']_vars

\* Initialized again by an init over an Initialized context.
C9_Witness ==
  /\ life = "alive"
  /\ initialized
  /\ res.op = "init"
  /\ res.err = "none"
  /\ Head(res.calls) = "HMAC_CTX_cleanup"

\* C10: after an init(A,K) the engine accepted, and until the next init, size()
\* returns the tag length of A.
C10_SizeFixed ==
  (life = "alive" /\ res.op = "size" /\ res.err = "none" /\ h.phase # "none")
    => res.ret = {DigestSize(h.alg)}

\* size() after bytes were fed and finalised.
C10_Witness ==
  /\ res.op = "size"
  /\ h.phase \in {"done", "reused"}
  /\ h.fed # <<>>
  /\ res.ret = {DigestSize(h.alg)}

\* How often a primitive occurs among the calls of one operation.
Count(calls, name) == Cardinality({i \in 1..Len(calls) : calls[i] = name})

\* The primitive each operation drives.
PrimitiveOf(op) ==
  CASE op = "init" -> "HMAC_Init_ex" [] op = "reset" -> "HMAC_Init_ex"
    [] op = "update" -> "HMAC_Update" [] op = "final" -> "HMAC_Final"
    [] OTHER -> "none"

\* C11: in every build, init, reset, update and final call their primitive
\* once, a failure of that call reaches the caller as openssl_hmac_error, and
\* the operation returns normally only when the call succeeded.
C11_FailuresReported ==
  (res.op \in {"init", "reset", "update", "final"} /\ res.prim \in {"ok", "fail"})
    => /\ Count(res.calls, PrimitiveOf(res.op)) = 1
       /\ res.prim = "fail" => res.err = "openssl_hmac_error"
       /\ res.err = "none" => res.prim = "ok"

\* C12: is_initialized() can be called in every state of a live context, never
\* fails, calls no primitive, returns the flag and changes neither the flag
\* nor the engine state.
C12_PureObserver ==
  /\ [](life = "alive" => ENABLED DoIsInitialized)
  /\ [][res'.op = "is_initialized"
          => /\ res'.err = "none"
             /\ res'.calls = <<>>
             /\ res'.ret = {IF initialized THEN 1 ELSE 0}
             /\ initialized' = initialized
             /\ ctx' = ctx
             /\ life' = life
             /\ leak' = leak]_vars

\* is_initialized() answering false after an init that failed in the engine.
C12_Witness ==
  /\ res.op = "is_initialized"
  /\ res.ret = {0}
  /\ lastInit = "failed"
  /\ ctx.st = "broken"

\* An init that the digest resolver stopped: it ended before HMAC_Init_ex.
ResolverRejected == res.op = "init" /\ Count(res.calls, "HMAC_Init_ex") = 0

\* C13: when the resolver signals an unsupported identifier, init fails with
\* openssl_hmac_error and the context is left uninitialized.
C13_ResolverErrorKind ==
  ResolverRejected => (res.err = "openssl_hmac_error" /\ ~initialized)

\* C14: update, reset, final, size and is_initialized, successful or failing,
\* leave the digest and key bound in the engine as they are; while an accepted
\* init is in force these are the digest and key of that init.
C14_BoundOnlyByInit ==
  /\ [](h.phase # "none" => (ctx.hasKey /\ ctx.md = h.alg /\ ctx.key = h.key))
  /\ [][(life = "alive" /\ res'.op \in GuardedOps \cup {"is_initialized"})
          => /\ ctx'.md = ctx.md
             /\ ctx'.key = ctx.key
             /\ ctx'.hasKey = ctx.hasKey]_vars

\* A successful reset over a context keyed with a non-empty key.
C14_Witness ==
  /\ res.op = "reset"
  /\ res.err = "none"
  /\ h.era = "reset"
  /\ h.key # <<>>
  /\ ctx.key = h.key
  /\ ctx.md = h.alg

C16_LengthPreserved ==
  cast.op # "none" => (cast.size.hi = 0 /\ cast.len = cast.size.lo)

Accumulating == {"reset", "update", "final"}

\* C17: a reset, update or final whose primitive fails on an initialized
\* context leaves the flag true and performs no cleanup; reset, update and final
\* on an initialized context always reach their primitive; HMAC_CTX_cleanup is
\* called by init and by destruction only.
C17_FailureKeepsLifecycle ==
  /\ [][(initialized /\ life = "alive" /\ res'.op \in Accumulating /\ res'.prim = "fail")
          => /\ initialized'
             /\ Count(res'.calls, "HMAC_CTX_cleanup") = 0
             /\ ctx'.st = ctx.st
             /\ life' = "alive"
             /\ leak' = leak]_vars
  /\ [][(initialized /\ life = "alive" /\ res'.op \in Accumulating)
          => /\ res'.err # "openssl_hmac_uninitialized"
             /\ Count(res'.calls, PrimitiveOf(res'.op)) = 1]_vars
  /\ [][(Count(res'.calls, "HMAC_CTX_cleanup") > 0 \/ (ctx'.st = "cleaned" /\ ctx.st # "cleaned"))
          => res'.op \in {"init", "destroy"}]_vars

\* A final that reached HMAC_Final on a context where an earlier reset, update
\* or final had failed.
C17_Witness ==
  /\ initialized
  /\ life = "alive"
  /\ h.phase = "fault"
  /\ res.op = "final"
  /\ res.prim = "ok"
  /\ res.calls = <<"HMAC_Final">>
  /\ ctx.st = "keyed"

\* C18: a call that runs HMAC_CTX_cleanup runs it once, first, on a flagged
\* context whose engine state HMAC_CTX_init set up and nothing has cleaned
\* since; the flag is set again only by an init that returned; init and
\* destruction of an unflagged context call no cleanup.
C18_CleanupOncePerInit ==
  /\ [](initialized => Touched(ctx))
  /\ [][Count(res'.calls, "HMAC_CTX_cleanup") > 0
          => /\ initialized
             /\ Touched(ctx)
             /\ Count(res'.calls, "HMAC_CTX_cleanup") = 1
             /\ res'.calls[1] = "HMAC_CTX_cleanup"
             /\ initialized' => (res'.op = "init" /\ res'.err = "none")]_vars
  /\ [][(~initialized /\ life = "alive" /\ res'.op \in {"init", "destroy"})
          => Count(res'.calls, "HMAC_CTX_cleanup") = 0]_vars

\* A destruction of an initialized context: one cleanup, on the state the
\* last init set up.
C18_Witness ==
  /\ res.op = "destroy"
  /\ res.calls = <<"HMAC_CTX_cleanup">>
  /\ life = "destroyed"
  /\ lastInit = "ok"
  /\ ctx.st = "cleaned"
  /\ ~initialized

====
